---- MODULE Spec2Model ----
(***************************************************************************)
(* A model of src/components/BoidsMurmuration.jsx: the Vector class, the   *)
(* Boid class, and the BoidsMurmuration component's animation loop, its    *)
(* initialization/resize effect and its boid-count effect.                 *)
(*                                                                         *)
(* Numbers.  A JavaScript number is modelled as a fixed-point value: the   *)
(* integer n stands for n / Scale.  Addition and subtraction are exact;    *)
(* every multiplication, division and square root rounds its exact result  *)
(* to the nearest representable value, as the IEEE-754 operations of the   *)
(* source do (at a coarser resolution).                                    *)
(*                                                                         *)
(* Objects.  Boids are objects with identity: `heap` maps a boid's         *)
(* identity to its fields, and an array of boids is a sequence of          *)
(* identities.                                                             *)
(***************************************************************************)
EXTENDS Integers, Sequences, FiniteSets, TLC

\* ------------------------------------------------------------- numbers

\* Resolution of the number model: the integer n stands for n / Scale.
Scale == 1000

Abs(a) == IF a < 0 THEN -a ELSE a

Sgn(a) == IF a < 0 THEN -1 ELSE 1

\* a / b rounded to the nearest integer (b # 0).
RoundDiv(a, b) == Sgn(a) * Sgn(b) * ((Abs(a) + Abs(b) \div 2) \div Abs(b))

\* The JavaScript number n (an integer literal) as a fixed-point value.
Num(n) == n * Scale

\* a * b on numbers.
NumMul(a, b) == RoundDiv(a * b, Scale)

\* a / b on numbers, b # 0.
NumDiv(a, b) == RoundDiv(a * Scale, b)

RECURSIVE SqrtIter(_, _)
SqrtIter(n, x) ==
    LET y == (x + n \div x) \div 2
    IN  IF y >= x THEN x ELSE SqrtIter(n, y)

\* floor(sqrt(n)) for an integer n >= 0.
ISqrt(n) == IF n = 0 THEN 0 ELSE SqrtIter(n, n)

\* Math.sqrt(a) on numbers, a >= 0: sqrt rounded to the nearest value.
NumSqrt(a) ==
    LET n == a * Scale
        r == ISqrt(n)
    IN  IF n - r * r > r THEN r + 1 ELSE r

\* -------------------------------------------------------- class Vector

Vec(x, y) == [x |-> x, y |-> y]

\* new Vector(): both components default to 0.
ZeroVec == Vec(0, 0)

Vector_add(v, w) == Vec(v.x + w.x, v.y + w.y)

Vector_sub(v, w) == Vec(v.x - w.x, v.y - w.y)

Vector_mult(v, n) == Vec(NumMul(v.x, n), NumMul(v.y, n))

\* Mutant of div: a zero divisor zeroes the vector.
Vector_divZeroing(v, n) ==
    IF n # 0 THEN Vec(NumDiv(v.x, n), NumDiv(v.y, n)) ELSE Vec(0, 0)

Vector_div(v, n) == IF n # 0 THEN Vec(NumDiv(v.x, n), NumDiv(v.y, n)) ELSE v

Vector_mag(v) == NumSqrt(NumMul(v.x, v.x) + NumMul(v.y, v.y))

Vector_normalize(v) ==
    LET m == Vector_mag(v)
    IN  IF m # 0 THEN Vector_div(v, m) ELSE v

Vector_setMag(v, n) == Vector_mult(Vector_normalize(v), n)

Vector_limit(v, max) ==
    LET mSq == NumMul(v.x, v.x) + NumMul(v.y, v.y)
    IN  IF mSq > NumMul(max, max)
        THEN Vector_mult(Vector_div(v, NumSqrt(mSq)), max)
        ELSE v

Vector_dist(v1, v2) ==
    LET dx == v1.x - v2.x
        dy == v1.y - v2.y
    IN  NumSqrt(NumMul(dx, dx) + NumMul(dy, dy))

Vector_staticSub(v1, v2) == Vec(v1.x - v2.x, v1.y - v2.y)

\* ---------------------------------------------------------- class Boid

(***************************************************************************)
(* The four Math.random() results one Boid constructor consumes: rx and ry *)
(* for the position, the angle (given by its cosine and sine, `dir`), and  *)
(* rs for the speed.  Each result lies in [0, 1).                          *)
(***************************************************************************)
Draws ==
    << [rx |-> 500, ry |-> 500, dir |-> Vec(1000, 0),   rs |-> 0],
       [rx |-> 500, ry |-> 500, dir |-> Vec(-600, 800), rs |-> 999],
       [rx |-> 50,  ry |-> 900, dir |-> Vec(707, -707), rs |-> 500] >>

\* The k-th constructor call of a handler whose first call draws Draws[seed].
Draw(seed, k) == Draws[((seed + k - 2) % Len(Draws)) + 1]

\* constructor(width, height)
Boid_new(width, height, draw) ==
    [position         |-> Vec(NumMul(draw.rx, width), NumMul(draw.ry, height)),
     velocity         |-> Vector_setMag(draw.dir, NumMul(draw.rs, Num(2)) + Num(2)),
     acceleration     |-> ZeroVec,
     maxForce         |-> Scale \div 10,
     maxSpeed         |-> Num(4),
     perceptionRadius |-> Num(50),
     separationRadius |-> Num(25)]

(***************************************************************************)
(* The neighbour loops.  h is the heap, boids the array passed in, me the  *)
(* identity of `this`; XLoop(h, boids, me, k) is [steering, total] after   *)
(* the first k iterations of the loop of X.                                *)
(***************************************************************************)
\* Mutant of the loop of align: an agent at exactly perceptionRadius counts.
RECURSIVE Boid_alignLoopInclusive(_, _, _, _)
Boid_alignLoopInclusive(h, boids, me, k) ==
    IF k = 0 THEN [steering |-> ZeroVec, total |-> 0]
    ELSE LET acc   == Boid_alignLoopInclusive(h, boids, me, k - 1)
             other == boids[k]
             d     == Vector_dist(h[me].position, h[other].position)
         IN  IF other # me /\ d <= h[me].perceptionRadius
             THEN [steering |-> Vector_add(acc.steering, h[other].velocity),
                   total    |-> acc.total + 1]
             ELSE acc

RECURSIVE Boid_alignLoop(_, _, _, _)
Boid_alignLoop(h, boids, me, k) ==
    IF k = 0 THEN [steering |-> ZeroVec, total |-> 0]
    ELSE LET acc   == Boid_alignLoop(h, boids, me, k - 1)
             other == boids[k]
             d     == Vector_dist(h[me].position, h[other].position)
         IN  IF other # me /\ d < h[me].perceptionRadius
             THEN [steering |-> Vector_add(acc.steering, h[other].velocity),
                   total    |-> acc.total + 1]
             ELSE acc

\* Mutant of align: the steering is shaped whatever the number of neighbours.
Boid_alignUnguarded(h, boids, me) ==
    LET acc == Boid_alignLoop(h, boids, me, Len(boids))
        s1  == Vector_div(acc.steering, Num(acc.total))
        s2  == Vector_setMag(s1, h[me].maxSpeed)
        s3  == Vector_sub(s2, h[me].velocity)
    IN  Vector_limit(s3, h[me].maxForce)

Boid_align(h, boids, me) ==
    LET acc == Boid_alignLoop(h, boids, me, Len(boids))
    IN  IF acc.total > 0
        THEN LET s1 == Vector_div(acc.steering, Num(acc.total))
                 s2 == Vector_setMag(s1, h[me].maxSpeed)
                 s3 == Vector_sub(s2, h[me].velocity)
             IN  Vector_limit(s3, h[me].maxForce)
        ELSE acc.steering

RECURSIVE Boid_cohesionLoop(_, _, _, _)
Boid_cohesionLoop(h, boids, me, k) ==
    IF k = 0 THEN [steering |-> ZeroVec, total |-> 0]
    ELSE LET acc   == Boid_cohesionLoop(h, boids, me, k - 1)
             other == boids[k]
             d     == Vector_dist(h[me].position, h[other].position)
         IN  IF other # me /\ d < h[me].perceptionRadius
             THEN [steering |-> Vector_add(acc.steering, h[other].position),
                   total    |-> acc.total + 1]
             ELSE acc

Boid_cohesion(h, boids, me) ==
    LET acc == Boid_cohesionLoop(h, boids, me, Len(boids))
    IN  IF acc.total > 0
        THEN LET s1 == Vector_div(acc.steering, Num(acc.total))
                 s2 == Vector_sub(s1, h[me].position)
                 s3 == Vector_setMag(s2, h[me].maxSpeed)
                 s4 == Vector_sub(s3, h[me].velocity)
             IN  Vector_limit(s4, h[me].maxForce)
        ELSE acc.steering

\* Mutant of the loop of separation: an agent at distance 0 is skipped.
RECURSIVE Boid_separationLoopSkipsCoincident(_, _, _, _)
Boid_separationLoopSkipsCoincident(h, boids, me, k) ==
    IF k = 0 THEN [steering |-> ZeroVec, total |-> 0]
    ELSE LET acc   == Boid_separationLoopSkipsCoincident(h, boids, me, k - 1)
             other == boids[k]
             d     == Vector_dist(h[me].position, h[other].position)
         IN  IF other # me /\ d < h[me].separationRadius /\ d # 0
             THEN LET diff == Vector_div(
                                  Vector_staticSub(h[me].position, h[other].position),
                                  NumMul(d, d))
                  IN  [steering |-> Vector_add(acc.steering, diff),
                       total    |-> acc.total + 1]
             ELSE acc

RECURSIVE Boid_separationLoop(_, _, _, _)
Boid_separationLoop(h, boids, me, k) ==
    IF k = 0 THEN [steering |-> ZeroVec, total |-> 0]
    ELSE LET acc   == Boid_separationLoop(h, boids, me, k - 1)
             other == boids[k]
             d     == Vector_dist(h[me].position, h[other].position)
         IN  IF other # me /\ d < h[me].separationRadius
             THEN LET diff == Vector_div(
                                  Vector_staticSub(h[me].position, h[other].position),
                                  NumMul(d, d))
                  IN  [steering |-> Vector_add(acc.steering, diff),
                       total    |-> acc.total + 1]
             ELSE acc

Boid_separation(h, boids, me) ==
    LET acc == Boid_separationLoop(h, boids, me, Len(boids))
    IN  IF acc.total > 0
        THEN LET s1 == Vector_div(acc.steering, Num(acc.total))
                 s2 == Vector_setMag(s1, h[me].maxSpeed)
                 s3 == Vector_sub(s2, h[me].velocity)
             IN  Vector_limit(s3, h[me].maxForce)
        ELSE acc.steering

\* applyForce(force), on the boid record b.
Boid_applyForce(b, force) ==
    [b EXCEPT !.acceleration = Vector_add(b.acceleration, force)]

\* Mutant of flock: separationRadius is not recomputed.
Boid_flockStaleRadius(h, boids, me, alignWeight, cohesionWeight, separationWeight) ==
    LET al == Vector_mult(Boid_align(h, boids, me), alignWeight)
        co == Vector_mult(Boid_cohesion(h, boids, me), cohesionWeight)
        se == Vector_mult(Boid_separation(h, boids, me), separationWeight)
    IN  [h EXCEPT ![me] =
            Boid_applyForce(Boid_applyForce(Boid_applyForce(h[me], al), co), se)]

\* flock(boids, alignWeight, cohesionWeight, separationWeight): the heap after
\* the call on the boid `me`.
Boid_flock(h, boids, me, alignWeight, cohesionWeight, separationWeight) ==
    LET h1  == [h EXCEPT ![me].separationRadius =
                             NumMul(h[me].perceptionRadius, Scale \div 2)]
        al  == Vector_mult(Boid_align(h1, boids, me), alignWeight)
        co  == Vector_mult(Boid_cohesion(h1, boids, me), cohesionWeight)
        se  == Vector_mult(Boid_separation(h1, boids, me), separationWeight)
    IN  [h1 EXCEPT ![me] =
            Boid_applyForce(Boid_applyForce(Boid_applyForce(h1[me], al), co), se)]

\* Mutant of update: the velocity is not limited.
Boid_updateUnlimited(b) ==
    LET v == Vector_add(b.velocity, b.acceleration)
    IN  [b EXCEPT !.velocity     = v,
                  !.position     = Vector_add(b.position, v),
                  !.acceleration = Vector_mult(b.acceleration, 0)]

\* Mutant of update: the acceleration is not reset.
Boid_updateKeepsAcceleration(b) ==
    LET v == Vector_limit(Vector_add(b.velocity, b.acceleration), b.maxSpeed)
    IN  [b EXCEPT !.velocity = v,
                  !.position = Vector_add(b.position, v)]

\* update(), on the boid record b.
Boid_update(b) ==
    LET v == Vector_limit(Vector_add(b.velocity, b.acceleration), b.maxSpeed)
    IN  [b EXCEPT !.velocity     = v,
                  !.position     = Vector_add(b.position, v),
                  !.acceleration = Vector_mult(b.acceleration, 0)]

\* Mutant of edges: only the left and top edges wrap.
Boid_edgesOneSided(b, width, height) ==
    LET x == IF b.position.x < 0 THEN width ELSE b.position.x
        y == IF b.position.y < 0 THEN height ELSE b.position.y
    IN  [b EXCEPT !.position = Vec(x, y)]

\* edges(width, height), on the boid record b.
Boid_edges(b, width, height) ==
    LET x == IF b.position.x > width THEN 0
             ELSE IF b.position.x < 0 THEN width
             ELSE b.position.x
        y == IF b.position.y > height THEN 0
             ELSE IF b.position.y < 0 THEN height
             ELSE b.position.y
    IN  [b EXCEPT !.position = Vec(x, y)]

\* -------------------------------------------- component BoidsMurmuration

\* Bounds of the model.
MaxCount == 2

MaxFrames == 2

MaxEvents == 2

\* The number of Vector method calls made in a row on one vector.
MaxCalls == 2

\* The values the controls are set to (population sizes are scaled down).
Counts == -1 .. MaxCount

Weights == {0, Scale}

Perceptions == {Num(10), Num(50)}

MaxSpeeds == {Num(1), Num(4)}

MaxForces == {Scale \div 10, Scale \div 2}

\* The sizes the window takes, in pixels.
WindowSizes == {[innerWidth |-> 30, innerHeight |-> 20],
                [innerWidth |-> 12, innerHeight |-> 12]}

ArrayIds == 1 .. 3

None == [none |-> TRUE]

VARIABLES
    boidCount, alignment, cohesion, separation, perception, maxSpeed, maxForce,
        \* the useState values of the last render
    heap,              \* boid identity -> the boid's fields
    arrays,            \* array identity -> the array (a sequence of boids)
    flockRef,          \* flockRef.current: the identity of the live array
    animationFrameRef, \* animationFrameRef.current: the position in `pending`
                       \* of the request it names, 0 when that request is gone
    canvas,            \* [width, height] of the canvas element
    window,            \* [innerWidth, innerHeight]
    pending,           \* the animation-frame requests, each an animate closure
    listeners,         \* the window's resize listeners, each a resizeCanvas closure
    effect,            \* the resizeCanvas closure the mounted effect will remove
    due,               \* the effects the last render scheduled and not yet run
    lastOp,            \* the code of the component that ran last
    trace,             \* what each iteration of the last animate loop read
    ran,               \* the animate closure that ran last
    frames, events,    \* the numbers of frames and of outside events so far
    vec, vecIn, vecArg, vecOp, vecCalls,
        \* a Vector, the receiver and argument of the last method called on
        \* it, the method, and the number of calls so far
    steerIn,           \* boid identity -> fields: the flock a steering rule is given
    steer              \* the last steering rule called: its receiver, the
                       \* [steering, total] its loop left, the force it returned
                       \* a vector, and the Vector method last called on it:
                       \* the receiver before the call and the argument

vars == <<boidCount, alignment, cohesion, separation, perception, maxSpeed,
          maxForce, heap, arrays, flockRef, animationFrameRef, canvas, window,
          pending, listeners, effect, due, lastOp, trace, ran, frames, events,
          vec, vecIn, vecArg, vecOp, vecCalls, steerIn, steer>>

vecVars == <<vec, vecIn, vecArg, vecOp, vecCalls>>

steerVars == <<steerIn, steer>>

simVars == <<boidCount, alignment, cohesion, separation, perception, maxSpeed,
             maxForce, heap, arrays, flockRef, animationFrameRef, canvas, window,
             pending, listeners, effect, due, lastOp, trace, ran, frames, events>>

controlVars == <<boidCount, alignment, cohesion, separation, perception,
                 maxSpeed, maxForce>>

\* The animate callback of the last render: useCallback keeps one closure per
\* value of its dependency list.
CurrentAnimate ==
    [alignment |-> alignment, cohesion |-> cohesion, separation |-> separation,
     perception |-> perception, maxSpeed |-> maxSpeed, maxForce |-> maxForce]

\* An identity no boid of the heap h has.
NewId(h) == CHOOSE i \in 1 .. Cardinality(DOMAIN h) + 1 : i \notin DOMAIN h

\* [arrays, heap] after `for (i = 0; i < n; i++) a.push(new Boid(width, height))`
\* on the array a; the k-th pushed boid is built from Draw(seed, k).
RECURSIVE PushBoids(_, _, _, _, _, _)
PushBoids(as, h, a, n, seed, cv) ==
    IF n <= 0 THEN [arrays |-> as, heap |-> h]
    ELSE LET prev == PushBoids(as, h, a, n - 1, seed, cv)
             id   == NewId(prev.heap)
         IN  [arrays |-> [prev.arrays EXCEPT ![a] = Append(@, id)],
              heap   |-> prev.heap @@
                         (id :> Boid_new(cv.width, cv.height, Draw(seed, n)))]

\* Mutant of slice: the last elements are kept, not the first.
Slice0KeepsTail(s, end) ==
    LET e == IF end < 0 THEN (IF Len(s) + end < 0 THEN 0 ELSE Len(s) + end)
             ELSE IF end > Len(s) THEN Len(s) ELSE end
    IN  SubSeq(s, Len(s) - e + 1, Len(s))

\* Array.prototype.slice(0, end) on the sequence s.
Slice0(s, end) ==
    LET e == IF end < 0 THEN (IF Len(s) + end < 0 THEN 0 ELSE Len(s) + end)
             ELSE IF end > Len(s) THEN Len(s) ELSE end
    IN  SubSeq(s, 1, e)

\* One iteration of the loop of animate is:
\*   boid.maxSpeed = ..; boid.maxForce = ..; boid.perceptionRadius = ..;
\*   boid.flock(flock, ..); boid.update(); boid.edges(canvas.width, canvas.height)
\* animateLoop is [heap, trace] after the first k iterations: trace[i].seen is
\* the positions and velocities of the flock as the i-th boid's flock() call
\* found them, trace[i].flocked the i-th boid when that call returned.
RECURSIVE animateLoop(_, _, _, _, _)
animateLoop(h, flock, cb, cv, k) ==
    IF k = 0 THEN [heap |-> h, trace |-> << >>]
    ELSE LET prev == animateLoop(h, flock, cb, cv, k - 1)
             boid == flock[k]
             h1   == [prev.heap EXCEPT ![boid].maxSpeed = cb.maxSpeed,
                                       ![boid].maxForce = cb.maxForce,
                                       ![boid].perceptionRadius = cb.perception]
             h2   == Boid_flock(h1, flock, boid,
                                cb.alignment, cb.cohesion, cb.separation)
             h3   == [h2 EXCEPT ![boid] =
                         Boid_edges(Boid_update(h2[boid]), cv.width, cv.height)]
         IN  [heap  |-> h3,
              trace |-> Append(prev.trace,
                               [seen    |-> [j \in 1 .. Len(flock) |->
                                                [position |-> h1[flock[j]].position,
                                                 velocity |-> h1[flock[j]].velocity]],
                                flocked |-> h2[boid]])]

\* animate(): one step over flockRef.current with the closure's parameters.
animate(h, cb) == animateLoop(h, arrays[flockRef], cb, canvas, Len(arrays[flockRef]))

\* The callbacks of one animation frame, in request order: [heap, trace, ran]
\* after the first k of them ran.
RECURSIVE RunCallbacks(_, _)
RunCallbacks(h, k) ==
    IF k = 0 THEN [heap |-> h, trace |-> trace, ran |-> ran]
    ELSE LET prev == RunCallbacks(h, k - 1)
             step == animate(prev.heap, pending[k])
         IN  [heap |-> step.heap, trace |-> step.trace, ran |-> pending[k]]

\* Mutant of resizeCanvas: the flock is populated whatever its length.
resizeCanvasUnguarded(as, h, cl, seed, win) ==
    LET cv == [width |-> Num(win.innerWidth), height |-> Num(win.innerHeight)]
        r  == PushBoids(as, h, cl.flock, cl.boidCount, seed, cv)
    IN  [arrays |-> r.arrays, heap |-> r.heap, canvas |-> cv]

\* resizeCanvas(), the closure cl = [flock, boidCount] of the effect that made it.
resizeCanvas(as, h, cl, seed, win) ==
    LET cv == [width |-> Num(win.innerWidth), height |-> Num(win.innerHeight)]
        r  == IF Len(as[cl.flock]) = 0
              THEN PushBoids(as, h, cl.flock, cl.boidCount, seed, cv)
              ELSE [arrays |-> as, heap |-> h]
    IN  [arrays |-> r.arrays, heap |-> r.heap, canvas |-> cv]

\* What stays reachable: the live array, the arrays the listeners hold, and
\* the boids in them.
Live(as, ref, ls) ==
    LET keep == {ref} \cup {ls[i].flock : i \in 1 .. Len(ls)}
    IN  [a \in keep |-> as[a]]

LiveHeap(as, h) ==
    [b \in UNION {{as[a][i] : i \in 1 .. Len(as[a])} : a \in DOMAIN as} |-> h[b]]

\* The Math.random() outcomes a handler is explored with: all of them when it
\* constructs a boid, one when it constructs none.
Seeds(constructs) == IF constructs THEN DOMAIN Draws ELSE {1}

\* The boid-count effect: [arrays, heap, flockRef] after it ran.
countEffect(as, h, ref, seed, cv) ==
    LET currentCount == Len(as[ref])
    IN  IF boidCount > currentCount
        THEN LET r == PushBoids(as, h, ref, boidCount - currentCount, seed, cv)
             IN  [arrays |-> r.arrays, heap |-> r.heap, flockRef |-> ref]
        ELSE IF boidCount < currentCount
        THEN LET a == CHOOSE i \in ArrayIds : i \notin DOMAIN as
             IN  [arrays   |-> as @@ (a :> Slice0(as[ref], boidCount)),
                  heap     |-> h,
                  flockRef |-> a]
        ELSE [arrays |-> as, heap |-> h, flockRef |-> ref]

\* The sequence s without its i-th element.
Remove(s, i) == SubSeq(s, 1, i - 1) \o SubSeq(s, i + 1, Len(s))

\* Mutant of the cleanup: the request is not cancelled.
cancelAnimationFrameKeeps(pd, ref) == pd

\* cancelAnimationFrame(animationFrameRef.current)
cancelAnimationFrame(pd, ref) == IF ref = 0 THEN pd ELSE Remove(pd, ref)

\* window.removeEventListener("resize", cl)
removeEventListener(ls, cl) ==
    LET Other(l) == l # cl
    IN  SelectSeq(ls, Other)

\* The component after its first render, before its effects have run.
SimInit ==
    /\ boidCount = MaxCount
    /\ alignment = Scale
    /\ cohesion = Scale
    /\ separation = Scale + Scale \div 2
    /\ perception = Num(50)
    /\ maxSpeed = Num(4)
    /\ maxForce = Scale \div 10
    /\ heap = << >>
    /\ arrays = (1 :> << >>)
    /\ flockRef = 1
    /\ animationFrameRef = 0
    /\ canvas = [width |-> 0, height |-> 0]
    /\ window = [innerWidth |-> 30, innerHeight |-> 20]
    /\ pending = << >>
    /\ listeners = << >>
    /\ effect = None
    /\ due = {"init", "count"}
    /\ lastOp = "none"
    /\ trace = << >>
    /\ ran = None
    /\ frames = 0
    /\ events = 0

Init ==
    /\ SimInit
    /\ vec = ZeroVec
    /\ vecIn = ZeroVec
    /\ vecArg = 0
    /\ vecOp = "none"
    /\ vecCalls = 0
    /\ steerIn = << >>
    /\ steer = None

\* What the scheduled effects leave, the first constructor call drawing
\* Draws[seed].
runEffects(seed) ==
    LET \* the cleanup the previous run of the initialization effect returned
        ls0 == IF effect = None THEN listeners
               ELSE removeEventListener(listeners, effect)
        pd0 == IF effect = None THEN pending
               ELSE cancelAnimationFrame(pending, animationFrameRef)
        \* the initialization effect
        cl  == [flock |-> flockRef, boidCount |-> boidCount]
        r1  == resizeCanvas(arrays, heap, cl, seed, window)
        ls1 == Append(ls0, cl)
        pd1 == Append(pd0, CurrentAnimate)
        \* the boid-count effect
        r2  == IF "count" \in due
               THEN countEffect(r1.arrays, r1.heap, flockRef, seed, r1.canvas)
               ELSE [arrays |-> r1.arrays, heap |-> r1.heap, flockRef |-> flockRef]
        as  == Live(r2.arrays, r2.flockRef, ls1)
    IN  [arrays            |-> as,
         heap              |-> LiveHeap(as, r2.heap),
         flockRef          |-> r2.flockRef,
         canvas            |-> r1.canvas,
         listeners         |-> ls1,
         effect            |-> cl,
         pending           |-> pd1,
         animationFrameRef |-> Len(pd1)]

(***************************************************************************)
(* The effects the last render scheduled run: the cleanup of the previous  *)
(* run of the initialization effect, then that effect (its dependencies    *)
(* are animate and boidCount), then, when boidCount changed, the           *)
(* boid-count effect.                                                      *)
(***************************************************************************)
RunEffects ==
    /\ due # {}
    /\ \E seed \in Seeds(boidCount > Len(arrays[flockRef])) :
       \E r \in {runEffects(seed)} :
            /\ arrays' = r.arrays
            /\ heap' = r.heap
            /\ flockRef' = r.flockRef
            /\ canvas' = r.canvas
            /\ listeners' = r.listeners
            /\ effect' = r.effect
            /\ pending' = r.pending
            /\ animationFrameRef' = r.animationFrameRef
    /\ due' = {}
    /\ lastOp' = "effects"
    /\ UNCHANGED <<vecVars, steerVars, controlVars, window, trace, ran, frames, events>>

\* The browser runs the callbacks requested for this frame; each animate
\* ends with animationFrameRef.current = requestAnimationFrame(animate).
AnimationFrame ==
    /\ pending # << >>
    /\ frames < MaxFrames
    /\ \E r \in {RunCallbacks(heap, Len(pending))} :
           /\ heap' = r.heap
           /\ trace' = r.trace
           /\ ran' = r.ran
    /\ animationFrameRef' = Len(pending)
    /\ frames' = frames + 1
    /\ lastOp' = "animate"
    /\ UNCHANGED <<vecVars, steerVars, controlVars, arrays, flockRef, canvas, window, pending,
                   listeners, effect, due, events>>

\* The resize listeners, in order: [arrays, heap, canvas] after the first k.
RECURSIVE RunListeners(_, _, _)
RunListeners(k, seed, win) ==
    IF k = 0 THEN [arrays |-> arrays, heap |-> heap, canvas |-> canvas]
    ELSE LET prev == RunListeners(k - 1, seed, win)
         IN  resizeCanvas(prev.arrays, prev.heap, listeners[k], seed, win)

\* The window is resized and dispatches "resize".
Resize ==
    /\ events < MaxEvents
    /\ \E win \in WindowSizes \ {window},
          seed \in Seeds(\E i \in 1 .. Len(listeners) :
                            /\ Len(arrays[listeners[i].flock]) = 0
                            /\ listeners[i].boidCount > 0) :
        \E r \in {RunListeners(Len(listeners), seed, win)} :
            /\ window' = win
            /\ arrays' = r.arrays
            /\ heap' = r.heap
            /\ canvas' = r.canvas
    /\ events' = events + 1
    /\ lastOp' = "resize"
    /\ UNCHANGED <<vecVars, steerVars, controlVars, flockRef, animationFrameRef, pending, listeners,
                   effect, due, trace, ran, frames>>

\* The component is unmounted: the cleanup of the initialization effect runs.
Unmount ==
    /\ effect # None
    /\ due = {}
    /\ events < MaxEvents
    /\ listeners' = removeEventListener(listeners, effect)
    /\ pending' = cancelAnimationFrame(pending, animationFrameRef)
    /\ animationFrameRef' = 0
    /\ effect' = None
    /\ events' = events + 1
    /\ lastOp' = "unmount"
    /\ UNCHANGED <<vecVars, steerVars, controlVars, heap, arrays, flockRef, canvas,
                   window, due, trace, ran, frames>>

(***************************************************************************)
(* The setters.  A setter called with the current value renders nothing;   *)
(* otherwise the component renders again, and the effects whose            *)
(* dependencies changed are scheduled.  The effects of a render run before *)
(* the next render starts.  An unmounted component renders no more.        *)
(***************************************************************************)
CanSet == effect # None /\ due = {} /\ events < MaxEvents

setBoidCount ==
    /\ CanSet
    /\ \E n \in Counts \ {boidCount} : boidCount' = n
    /\ due' = {"init", "count"}
    /\ events' = events + 1
    /\ UNCHANGED <<vecVars, steerVars, lastOp,
                   alignment, cohesion, separation, perception, maxSpeed,
                   maxForce, heap, arrays, flockRef, animationFrameRef, canvas,
                   window, pending, listeners, effect, trace, ran, frames>>

setAlignment ==
    /\ CanSet
    /\ \E v \in Weights \ {alignment} : alignment' = v
    /\ due' = {"init"}
    /\ events' = events + 1
    /\ UNCHANGED <<vecVars, steerVars, lastOp,
                   boidCount, cohesion, separation, perception, maxSpeed,
                   maxForce, heap, arrays, flockRef, animationFrameRef, canvas,
                   window, pending, listeners, effect, trace, ran, frames>>

setCohesion ==
    /\ CanSet
    /\ \E v \in Weights \ {cohesion} : cohesion' = v
    /\ due' = {"init"}
    /\ events' = events + 1
    /\ UNCHANGED <<vecVars, steerVars, lastOp,
                   boidCount, alignment, separation, perception, maxSpeed,
                   maxForce, heap, arrays, flockRef, animationFrameRef, canvas,
                   window, pending, listeners, effect, trace, ran, frames>>

setSeparation ==
    /\ CanSet
    /\ \E v \in Weights \ {separation} : separation' = v
    /\ due' = {"init"}
    /\ events' = events + 1
    /\ UNCHANGED <<vecVars, steerVars, lastOp,
                   boidCount, alignment, cohesion, perception, maxSpeed,
                   maxForce, heap, arrays, flockRef, animationFrameRef, canvas,
                   window, pending, listeners, effect, trace, ran, frames>>

setPerception ==
    /\ CanSet
    /\ \E v \in Perceptions \ {perception} : perception' = v
    /\ due' = {"init"}
    /\ events' = events + 1
    /\ UNCHANGED <<vecVars, steerVars, lastOp,
                   boidCount, alignment, cohesion, separation, maxSpeed,
                   maxForce, heap, arrays, flockRef, animationFrameRef, canvas,
                   window, pending, listeners, effect, trace, ran, frames>>

setMaxSpeed ==
    /\ CanSet
    /\ \E v \in MaxSpeeds \ {maxSpeed} : maxSpeed' = v
    /\ due' = {"init"}
    /\ events' = events + 1
    /\ UNCHANGED <<vecVars, steerVars, lastOp,
                   boidCount, alignment, cohesion, separation, perception,
                   maxForce, heap, arrays, flockRef, animationFrameRef, canvas,
                   window, pending, listeners, effect, trace, ran, frames>>

setMaxForce ==
    /\ CanSet
    /\ \E v \in MaxForces \ {maxForce} : maxForce' = v
    /\ due' = {"init"}
    /\ events' = events + 1
    /\ UNCHANGED <<vecVars, steerVars, lastOp,
                   boidCount, alignment, cohesion, separation, perception,
                   maxSpeed, heap, arrays, flockRef, animationFrameRef, canvas,
                   window, pending, listeners, effect, trace, ran, frames>>

Next ==
    \/ RunEffects
    \/ AnimationFrame
    \/ Resize
    \/ Unmount
    \/ setBoidCount
    \/ setAlignment
    \/ setCohesion
    \/ setSeparation
    \/ setPerception
    \/ setMaxSpeed
    \/ setMaxForce

Spec == Init /\ [][Next]_vars

\* ------------------------------------- the Vector methods on their own

\* The vectors and the scalars the methods are called with.
VecComponents == {-3 * Scale, 0, Scale + Scale \div 2, 4 * Scale}

VecInputs == {Vec(x, y) : x \in VecComponents, y \in VecComponents}

Scalars == {0, Scale, 2 * Scale, 4 * Scale}

VecInit ==
    /\ SimInit
    /\ vec \in VecInputs
    /\ vecIn = vec
    /\ vecArg = 0
    /\ vecOp = "none"
    /\ vecCalls = 0
    /\ steerIn = << >>
    /\ steer = None

CallDiv ==
    /\ vecCalls < MaxCalls
    /\ \E n \in Scalars : vec' = Vector_div(vec, n) /\ vecArg' = n
    /\ vecIn' = vec
    /\ vecOp' = "div"
    /\ vecCalls' = vecCalls + 1
    /\ UNCHANGED <<simVars, steerVars>>

CallNormalize ==
    /\ vecCalls < MaxCalls
    /\ vec' = Vector_normalize(vec)
    /\ vecIn' = vec
    /\ vecArg' = 0
    /\ vecOp' = "normalize"
    /\ vecCalls' = vecCalls + 1
    /\ UNCHANGED <<simVars, steerVars>>

CallSetMag ==
    /\ vecCalls < MaxCalls
    /\ \E n \in Scalars : vec' = Vector_setMag(vec, n) /\ vecArg' = n
    /\ vecIn' = vec
    /\ vecOp' = "setMag"
    /\ vecCalls' = vecCalls + 1
    /\ UNCHANGED <<simVars, steerVars>>

CallLimit ==
    /\ vecCalls < MaxCalls
    /\ \E n \in Scalars : vec' = Vector_limit(vec, n) /\ vecArg' = n
    /\ vecIn' = vec
    /\ vecOp' = "limit"
    /\ vecCalls' = vecCalls + 1
    /\ UNCHANGED <<simVars, steerVars>>

VecNext ==
    \/ CallDiv
    \/ CallNormalize
    \/ CallSetMag
    \/ CallLimit

VecSpec == VecInit /\ [][VecNext]_vars

(***************************************************************************)
(* The steering rules on their own: align, cohesion and separation called  *)
(* on the agents of a flock whose positions are drawn from a grid of the   *)
(* canvas, as a frame can find them.                                       *)
(***************************************************************************)
\* Positions, in pixels: (3, 4) is at distance 5 from (0, 0) and from (6, 8),
\* (6, 8) at distance 10 from (0, 0).
SteerGrid == {Vec(0, 0), Vec(Num(3), Num(4)), Vec(Num(6), Num(8)),
              Vec(Num(2), Num(2)), Vec(Num(20), 0)}

\* The perception the last frame gave the agents.
SteerRadii == {Num(10), Num(20)}

\* The agent the k-th constructor call made, later moved to p by update() and
\* given the perception r by animate and flock().
SteerBoid(k, p, r) ==
    [Boid_new(Num(30), Num(20), Draw(1, k)) EXCEPT
        !.position         = p,
        !.perceptionRadius = r,
        !.separationRadius = NumMul(r, Scale \div 2)]

SteerInputs ==
    {[k \in 1 .. MaxCount |-> SteerBoid(k, ps[k], r)] :
        ps \in [1 .. MaxCount -> SteerGrid], r \in SteerRadii}

\* The array of the agents of the flock h.
SteerFlock(h) == [k \in 1 .. Len(h) |-> k]

SteerInit ==
    /\ SimInit
    /\ vec = ZeroVec
    /\ vecIn = ZeroVec
    /\ vecArg = 0
    /\ vecOp = "none"
    /\ vecCalls = 0
    /\ steerIn \in SteerInputs
    /\ steer = None

CallAlign ==
    /\ \E me \in DOMAIN steerIn :
          steer' = [op    |-> "align",
                    me    |-> me,
                    acc   |-> Boid_alignLoop(steerIn, SteerFlock(steerIn), me,
                                             Len(steerIn)),
                    force |-> Boid_align(steerIn, SteerFlock(steerIn), me)]
    /\ UNCHANGED <<simVars, vecVars, steerIn>>

CallCohesion ==
    /\ \E me \in DOMAIN steerIn :
          steer' = [op    |-> "cohesion",
                    me    |-> me,
                    acc   |-> Boid_cohesionLoop(steerIn, SteerFlock(steerIn), me,
                                                Len(steerIn)),
                    force |-> Boid_cohesion(steerIn, SteerFlock(steerIn), me)]
    /\ UNCHANGED <<simVars, vecVars, steerIn>>

CallSeparation ==
    /\ \E me \in DOMAIN steerIn :
          steer' = [op    |-> "separation",
                    me    |-> me,
                    acc   |-> Boid_separationLoop(steerIn, SteerFlock(steerIn), me,
                                                  Len(steerIn)),
                    force |-> Boid_separation(steerIn, SteerFlock(steerIn), me)]
    /\ UNCHANGED <<simVars, vecVars, steerIn>>

SteerNext ==
    \/ CallAlign
    \/ CallCohesion
    \/ CallSeparation

SteerSpec == SteerInit /\ [][SteerNext]_vars

\* ------------------------------------------------------------- claims

\* The live flock, as boids.
Flock == arrays[flockRef]

\* The effects of the last render have run.
Settled == due = {} /\ lastOp # "none"

\* The squared magnitude of v, exactly (in units of 1 / Scale^2).
MagSq(v) == v.x * v.x + v.y * v.y

(***************************************************************************)
(* C1.  Within one step over the flock, every agent's steering reads the   *)
(* position and velocity every agent had at the start of the step: what    *)
(* the i-th flock() call finds is what the first one found.                *)
(***************************************************************************)
C1_SteeringReadsSnapshot ==
    lastOp = "animate" =>
        \A i \in 1 .. Len(trace) : trace[i].seen = trace[1].seen

(***************************************************************************)
(* C2.  With a target >= 0, once the effects of the latest render have run *)
(* the live flock holds exactly boidCount agents, whatever count changes,  *)
(* resizes and frames came before; and no step ever appends to an array    *)
(* that is not the live flock.                                             *)
(***************************************************************************)
C2_FlockHoldsTarget ==
    /\ [](Settled /\ boidCount >= 0 => Len(Flock) = boidCount)
    /\ [][\A a \in DOMAIN arrays \cap DOMAIN arrays' :
            Len(arrays'[a]) > Len(arrays[a]) => a = flockRef /\ a = flockRef']_vars

\* A resize ran on a closure that holds an array which is no longer the live
\* flock, and the live flock holds its target.
C2_Witness ==
    /\ Settled
    /\ lastOp = "resize"
    /\ boidCount > 0
    /\ Len(Flock) = boidCount
    /\ \E i \in 1 .. Len(listeners) : listeners[i].flock # flockRef

(***************************************************************************)
(* C3.  When the effects run, a shrink to 0 <= boidCount < length leaves   *)
(* exactly the first boidCount agents of the flock, in order; a grow keeps *)
(* every agent at its index and appends after them; and in both cases the  *)
(* fields of every surviving agent are unchanged.                          *)
(***************************************************************************)
C3_ResizeKeepsSurvivors ==
    [][due # {} /\ due' = {} =>
        LET old == arrays[flockRef]
            new == arrays'[flockRef']
        IN  /\ 0 <= boidCount /\ boidCount < Len(old)
                => new = SubSeq(old, 1, boidCount)
            /\ boidCount >= Len(old)
                => Len(new) >= Len(old) /\ SubSeq(new, 1, Len(old)) = old
            /\ \A i \in 1 .. Len(new) :
                 i <= Len(old) => new[i] = old[i] /\ heap'[new[i]] = heap[old[i]]]_vars

\* A shrink happened that kept some agents and dropped others: the closure of
\* the effect still holds the longer array.
C3_Witness ==
    /\ lastOp = "effects"
    /\ effect # None
    /\ effect.flock # flockRef
    /\ Len(Flock) > 0
    /\ Len(arrays[effect.flock]) > Len(Flock)

(***************************************************************************)
(* C4.  A target of zero or below leaves, once the effects have run, an    *)
(* empty flock.                                                            *)
(***************************************************************************)
C4_NonPositiveTargetEmptiesFlock ==
    Settled /\ boidCount <= 0 => Len(Flock) = 0

(***************************************************************************)
(* C5.  After a step, the squared magnitude of every agent's velocity is   *)
(* at most the square of the maxSpeed of that step.                        *)
(***************************************************************************)
C5_SpeedAtMostMaxSpeed ==
    lastOp = "animate" =>
        \A i \in 1 .. Len(Flock) :
            MagSq(heap[Flock[i]].velocity) <= ran.maxSpeed * ran.maxSpeed

\* The rounding error allowed on a rescaled magnitude.
Epsilon == Scale \div 100

(***************************************************************************)
(* C5, amended.  After a step, the magnitude of every agent's velocity is  *)
(* at most the maxSpeed of that step plus the rounding error of the        *)
(* rescaling.                                                              *)
(***************************************************************************)
C5_SpeedWithinEpsilon ==
    lastOp = "animate" =>
        \A i \in 1 .. Len(Flock) :
            MagSq(heap[Flock[i]].velocity)
                <= (ran.maxSpeed + Epsilon) * (ran.maxSpeed + Epsilon)

\* A step ran on an agent that was faster than the step's maxSpeed.
C5_Witness ==
    /\ lastOp = "animate"
    /\ \E i \in 1 .. Len(trace) :
         MagSq(trace[i].seen[i].velocity) > ran.maxSpeed * ran.maxSpeed

(***************************************************************************)
(* C6.  After a step every agent's position lies within the canvas:        *)
(* 0 <= x <= width and 0 <= y <= height.                                   *)
(***************************************************************************)
C6_PositionWithinCanvas ==
    lastOp = "animate" =>
        \A i \in 1 .. Len(Flock) :
            LET p == heap[Flock[i]].position
            IN  /\ 0 <= p.x /\ p.x <= canvas.width
                /\ 0 <= p.y /\ p.y <= canvas.height

\* A step ran after the canvas was made smaller, and wrapped an agent that
\* was outside it.
C6_Witness ==
    /\ lastOp = "animate"
    /\ canvas.width < Num(30)
    /\ \E i \in 1 .. Len(trace) :
         /\ trace[i].seen[i].position.x > canvas.width
         /\ heap[Flock[i]].position.x = 0

(***************************************************************************)
(* C7.  Every agent's acceleration is the zero vector in every state       *)
(* between two handlers, so a step adds to the velocity only the forces    *)
(* of that step.                                                           *)
(***************************************************************************)
C7_AccelerationIsZero ==
    \A b \in DOMAIN heap : heap[b].acceleration = ZeroVec

\* A step ran in which flock() gave some agent a force.
C7_Witness ==
    /\ lastOp = "animate"
    /\ \E i \in 1 .. Len(trace) : trace[i].flocked.acceleration # ZeroVec

C9_ZeroDivisorIsNoOp ==
    /\ vecOp = "div" /\ vecArg = 0 => vec = vecIn
    /\ vecOp \in {"normalize", "setMag"} /\ vecIn = ZeroVec => vec = ZeroVec

\* div(0) was called on a vector that is not the zero vector.
C9_Witness ==
    /\ vecOp = "div"
    /\ vecArg = 0
    /\ vecIn # ZeroVec

\* In the i-th iteration of the last step, no other agent was at a distance
\* less than the perceptionRadius of the step.
Alone(i) ==
    \A j \in 1 .. Len(trace[i].seen) :
        j # i => Vector_dist(trace[i].seen[i].position,
                             trace[i].seen[j].position) >= ran.perception

(***************************************************************************)
(* C10.  An agent with no other agent nearer than its perceptionRadius     *)
(* gets the zero vector from align(), cohesion() and separation(); a step  *)
(* adds nothing to its acceleration and changes its velocity only by the   *)
(* maxSpeed clamp.                                                         *)
(***************************************************************************)
C10_NoNeighbourNoForce ==
    lastOp = "animate" =>
        /\ \A i \in 1 .. Len(trace) :
             Alone(i) =>
                /\ trace[i].flocked.acceleration = ZeroVec
                /\ heap[Flock[i]].velocity =
                       Vector_limit(trace[i].seen[i].velocity, ran.maxSpeed)
        /\ \A i \in 1 .. Len(Flock) :
             (\A j \in 1 .. Len(Flock) :
                 j # i => Vector_dist(heap[Flock[i]].position,
                                      heap[Flock[j]].position)
                              >= heap[Flock[i]].perceptionRadius)
             => /\ Boid_align(heap, Flock, Flock[i]) = ZeroVec
                /\ Boid_cohesion(heap, Flock, Flock[i]) = ZeroVec
                /\ Boid_separation(heap, Flock, Flock[i]) = ZeroVec

\* A step ran on a flock of several agents, one of them out of the others'
\* reach.
C10_Witness ==
    /\ lastOp = "animate"
    /\ Len(trace) > 1
    /\ \E i \in 1 .. Len(trace) : Alone(i)


\* The squared distance of p and q, exactly (in units of 1 / Scale^2).
DistSq(p, q) == (p.x - q.x) * (p.x - q.x) + (p.y - q.y) * (p.y - q.y)

\* The other agents of the flock h at a distance less than radius from me.
Neighbours(h, me, radius) ==
    {o \in DOMAIN h :
        o # me /\ DistSq(h[me].position, h[o].position) < radius * radius}

\* The sum of the vectors h[o][field], o in S.
RECURSIVE VecSum(_, _, _)
VecSum(h, S, field) ==
    IF S = {} THEN ZeroVec
    ELSE LET o == CHOOSE x \in S : TRUE
         IN  Vector_add(VecSum(h, S \ {o}, field), h[o][field])

(***************************************************************************)
(* C11.  align() and cohesion() count and sum exactly the other agents at  *)
(* a distance strictly less than perceptionRadius, separation() counts     *)
(* exactly those at a distance strictly less than separationRadius: an     *)
(* agent at exactly the radius is left out, the receiver is left out, and  *)
(* a distinct agent at the receiver's position is counted.                 *)
(***************************************************************************)
C11_NeighbourSetIsStrict ==
    /\ steer # None /\ steer.op = "align" =>
          LET N == Neighbours(steerIn, steer.me, steerIn[steer.me].perceptionRadius)
          IN  /\ steer.acc.total = Cardinality(N)
              /\ steer.acc.steering = VecSum(steerIn, N, "velocity")
    /\ steer # None /\ steer.op = "cohesion" =>
          LET N == Neighbours(steerIn, steer.me, steerIn[steer.me].perceptionRadius)
          IN  /\ steer.acc.total = Cardinality(N)
              /\ steer.acc.steering = VecSum(steerIn, N, "position")
    /\ steer # None /\ steer.op = "separation" =>
          LET N == Neighbours(steerIn, steer.me, steerIn[steer.me].separationRadius)
          IN  steer.acc.total = Cardinality(N)

\* align() ran on an agent with another agent at exactly perceptionRadius,
\* and found no neighbour.
C11_Witness ==
    /\ steer # None
    /\ steer.op = "align"
    /\ \E o \in DOMAIN steerIn :
          /\ o # steer.me
          /\ DistSq(steerIn[steer.me].position, steerIn[o].position)
                = steerIn[steer.me].perceptionRadius
                    * steerIn[steer.me].perceptionRadius
    /\ steer.acc.total = 0


\* The other agents of the flock h at the very position of me.
Coincident(h, me) ==
    {o \in DOMAIN h : o # me /\ h[o].position = h[me].position}

\* separation() ran on an agent that shares its position with another agent,
\* and every agent within its separationRadius is at its position: the sum
\* the loop left is the sum of the terms of the coincident pairs.
CoincidentCase ==
    /\ steer # None
    /\ steer.op = "separation"
    /\ Coincident(steerIn, steer.me) # {}
    /\ Neighbours(steerIn, steer.me, steerIn[steer.me].separationRadius)
          = Coincident(steerIn, steer.me)

\* v is a vector of two finite numbers.
IsFinite(v) == v.x \in Int /\ v.y \in Int

(***************************************************************************)
(* C12, as stated.  For two distinct agents at the same position the       *)
(* separation term of the pair is not a finite vector.                     *)
(***************************************************************************)
C12_CoincidentTermUndefined ==
    CoincidentCase => ~IsFinite(steer.acc.steering)

(***************************************************************************)
(* C12, amended.  For two distinct agents at the same position div() is    *)
(* called with 0 and leaves the difference as it is: the term of the pair  *)
(* is the zero vector, the pair counts as a neighbour, and separation()    *)
(* returns the finite force limit(-velocity, maxForce).                    *)
(***************************************************************************)
C12_CoincidentTermIsZero ==
    CoincidentCase =>
        /\ steer.acc.steering = ZeroVec
        /\ steer.acc.total = Cardinality(Coincident(steerIn, steer.me))
        /\ steer.force = Vector_limit(
                             Vector_sub(ZeroVec, steerIn[steer.me].velocity),
                             steerIn[steer.me].maxForce)
        /\ IsFinite(steer.force)

\* separation() ran on an agent with another agent at its position.
C12_Witness ==
    /\ CoincidentCase
    /\ steer.acc.total > 0
    /\ steer.force # ZeroVec


(***************************************************************************)
(* C13, as stated.  At most one animation-frame request is pending, and    *)
(* every animation frame runs one step with the parameter values set last: *)
(* the callback that runs is the animate of the last render, never one a   *)
(* render has replaced.                                                    *)
(***************************************************************************)
C13_FramesUseLatestValues ==
    /\ [](Len(pending) <= 1)
    /\ [][frames' # frames =>
              /\ Len(pending) = 1
              /\ ran' = pending[1]
              /\ ran' = CurrentAnimate]_vars

(***************************************************************************)
(* C13, amended.  In every state at most one animation-frame request is   *)
(* pending, and it is the one animationFrameRef names.  Every animation    *)
(* frame runs exactly one callback, hence one step over the flock, and the *)
(* callback requests the next frame for itself.  Once the effects of a     *)
(* render have run (the cleanup cancelled the request of the animate       *)
(* callback the render replaced, the effect requested a frame for the new  *)
(* one), the pending callback is the animate of the last render: the frame *)
(* steps with the parameter values set last, and the replaced callback     *)
(* never runs again.  A frame that comes after a render and before its     *)
(* effects runs the replaced callback.  After the cleanup of an unmount no *)
(* request is pending.                                                     *)
(***************************************************************************)
C13_OnePendingFrame ==
    /\ [](/\ Len(pending) <= 1
          /\ pending # << >> => animationFrameRef = 1
          /\ effect # None /\ due = {} => pending = <<CurrentAnimate>>
          /\ effect = None => pending = << >>)
    /\ [][frames' # frames =>
              /\ frames' = frames + 1
              /\ Len(pending) = 1
              /\ ran' = pending[1]
              /\ pending' = pending
              /\ Len(trace') = Len(Flock)
              /\ due = {} => ran' = CurrentAnimate]_vars

\* A parameter was changed, the effects ran again, and a frame stepped a flock
\* of two with the new values while one request is pending.
C13_Witness ==
    /\ lastOp = "animate"
    /\ due = {}
    /\ frames = MaxFrames
    /\ events > 0
    /\ ran = CurrentAnimate
    /\ ran.perception # Num(50)
    /\ Len(trace) = 2
    /\ Len(pending) = 1

====
